---- MODULE Spec2Model ----
(***************************************************************************)
(* Model of `leetcode edit` (src/src/cmds/edit.rs, EditCommand::handler).  *)
(*                                                                         *)
(* One invocation of the handler runs at a time (the local store is        *)
(* single-writer).  The handler is cut into steps at every `?` that can    *)
(* return early; each step is one action.  Persistent state (the files on  *)
(* disk, the persisted configuration, the problems table) survives from    *)
(* one invocation to the next.                                             *)
(*                                                                         *)
(* File contents are sequences of string tokens; one write_all call        *)
(* appends the tokens of its argument.  A failing write_all is modelled at *)
(* the granularity of the call: the calls before it have taken effect.     *)
(***************************************************************************)
EXTENDS Integers, Sequences, FiniteSets, TLC

(***************************************************************************)
(* Bounds of the model.                                                    *)
(***************************************************************************)
\* number of invocations of the handler in one behaviour
MaxInvocations == 3
\* number of environment failures (I/O, remote, spawn) in one behaviour
MaxFaults == 1

(***************************************************************************)
(* The world the handler runs in: the problems table, the questions, the   *)
(* languages a user may ask for.                                           *)
(***************************************************************************)
\* rows of the problems table (schemas.rs: problems(id))
ProblemIds == {1, 2}
\* ids a user may type; 3 has no row
ArgIds == {1, 2, 3}
\* languages a user may ask for (conf.code.lang, --lang)
Langs == {"rust", "python3"}
NoLang == ""
NoId == 0

\* a Question: defs (language tag, template code), all_cases, description
Question1 ==
  [defs |-> << [value |-> "cpp", code |-> "void one() {}"],
               [value |-> "rust", code |-> "fn one() {}"] >>,
   all_cases |-> "cases-1",
   desc |-> "question-1"]
\* two defs carry the same tag
Question2 ==
  [defs |-> << [value |-> "python3", code |-> "def two(): pass"],
               [value |-> "python3", code |-> "def two_bis(): pass"] >>,
   all_cases |-> "cases-2",
   desc |-> "question-2"]
NoQuestion == [defs |-> << >>, all_cases |-> "", desc |-> ""]

\* problems.desc (schemas.rs:14): problem 1 holds a serialized Question,
\* problem 2 holds text that is no Question
ProblemDesc(pid) ==
  IF pid = 1 THEN [json |-> TRUE, value |-> Question1]
             ELSE [json |-> FALSE, value |-> NoQuestion]
\* what the remote source answers for cache.get_question(id)
RemoteQuestion(pid) == IF pid = 1 THEN Question1 ELSE Question2

\* a parse that always fails
FromStrAlwaysErr(desc) == [ok |-> FALSE, value |-> NoQuestion]
\* serde_json::from_str(&problem.desc): Ok(question) or Err
FromStr(desc) ==
  IF desc.json THEN [ok |-> TRUE, value |-> desc.value]
               ELSE [ok |-> FALSE, value |-> NoQuestion]

\* problem.desc_comment(&conf) and question.desc_comment(&conf)
ProblemDescComment(pid) == IF pid = 1 THEN "/* problem 1 */" ELSE "/* problem 2 */"
QuestionDescComment(q) == q.desc

(***************************************************************************)
(* Paths (crate::helper::code_path, test_cases_path) and the file system.  *)
(***************************************************************************)
CodePath(pid, l) == <<"code", pid, l>>
TestCasesPath(pid) == <<"test", pid, NoLang>>
NoPath == <<"none", NoId, NoLang>>
CodePaths == {CodePath(p, l) : p \in ProblemIds, l \in Langs}
TestPaths == {TestCasesPath(p) : p \in ProblemIds}
Paths == CodePaths \cup TestPaths

Absent == [exists |-> FALSE, content |-> << >>]
\* a pre-check that never sees the file
PathExistsNever(f, p) == FALSE
\* Path::new(&path).exists()
PathExists(f, p) == f[p].exists
\* File::create: creates the file, or truncates it when it exists
FileCreate(f, p) == [f EXCEPT ![p] = [exists |-> TRUE, content |-> << >>]]
\* write_all on the open file: appends
WriteAll(f, p, toks) == [f EXCEPT ![p].content = @ \o toks]
\* std::fs::remove_file: Ok only when the file exists
CanRemove(f, p) == f[p].exists
RemoveFile(f, p) == [f EXCEPT ![p] = Absent]

RECURSIVE Flatten(_)
Flatten(ss) == IF ss = << >> THEN << >> ELSE Head(ss) \o Flatten(Tail(ss))
Prefix(s, n) == SubSeq(s, 1, n)

(***************************************************************************)
(* Configuration (conf.code).  An absent Option<Vec<String>> and an empty  *)
(* list write the same bytes; both are the empty sequence here.            *)
(***************************************************************************)
CommentLeading == "//"
StartMarker == "@lc code=start"
EndMarker == "@lc code=end"

\* editor_envs entries, as sequences of characters
EnvGood == <<" ", "A", " ", "=", "1", " ">>
EnvNoEq == <<"A", "1">>
EnvTwoEq == <<"A", "=", "1", "=", "2">>
EnvEmptyValue == <<"B", "=">>
\* editor_args and editor_envs: none configured; well-formed entries; an entry
\* that is not well formed, last or first in the list
Launches ==
  { [editor_args |-> << >>, editor_envs |-> << >>],
    [editor_args |-> <<"-n", "-s">>, editor_envs |-> <<EnvGood, EnvEmptyValue>>],
    [editor_args |-> << >>, editor_envs |-> <<EnvGood, EnvNoEq>>],
    [editor_args |-> <<"-n", "-s">>, editor_envs |-> <<EnvTwoEq, EnvGood>>] }
\* the four layout switches, all off or all on
LayoutsSmall ==
  { [comment_problem_desc |-> b, edit_code_marker |-> b,
     inject_before |-> IF b THEN <<"use a;", "use b;">> ELSE << >>,
     inject_after |-> IF b THEN <<"fn main() {}">> ELSE << >>] : b \in BOOLEAN }

Config(test, layout, launch) ==
  [test |-> test,
   comment_problem_desc |-> layout.comment_problem_desc,
   edit_code_marker |-> layout.edit_code_marker,
   inject_before |-> layout.inject_before,
   inject_after |-> layout.inject_after,
   editor_args |-> launch.editor_args,
   editor_envs |-> launch.editor_envs]
Configs ==
  { Config(t, l, e) : t \in BOOLEAN, l \in LayoutsSmall, e \in Launches }

(***************************************************************************)
(* Editor launch helpers (edit.rs:187-217).                                *)
(***************************************************************************)
\* env.split('='): the parts between the '=' characters, empty parts kept
RECURSIVE SplitFrom(_, _, _)
SplitFrom(rest, cur, parts) ==
  IF rest = << >> THEN Append(parts, cur)
  ELSE IF Head(rest) = "=" THEN SplitFrom(Tail(rest), << >>, Append(parts, cur))
  ELSE SplitFrom(Tail(rest), Append(cur, Head(rest)), parts)
Split(env) == SplitFrom(env, << >>, << >>)

\* str::trim: leading and trailing white space removed
RECURSIVE TrimStart(_)
TrimStart(s) ==
  IF s # << >> /\ Head(s) = " " THEN TrimStart(Tail(s)) ELSE s
RECURSIVE TrimEnd(_)
TrimEnd(s) ==
  IF s # << >> /\ s[Len(s)] = " " THEN TrimEnd(SubSeq(s, 1, Len(s) - 1)) ELSE s
Trim(s) == TrimEnd(TrimStart(s))

\* a check that asks for a delimiter, not for exactly one
WellFormedLoose(env) == Len(Split(env)) >= 2
\* parts.len() == 2
WellFormed(env) == Len(Split(env)) = 2

\* HashMap::insert: a later entry of the same name replaces the earlier one
Insert(map, name, value) == {e \in map : e[1] # name} \cup {<<name, value>>}

\* the loop over editor_envs: stops at the first entry that is not well formed
RECURSIVE ParseEnvs(_, _)
ParseEnvs(editor_envs, map) ==
  IF editor_envs = << >> THEN [ok |-> TRUE, envs |-> map, bad |-> << >>]
  ELSE IF WellFormed(Head(editor_envs))
       THEN ParseEnvs(Tail(editor_envs),
                      Insert(map, Trim(Split(Head(editor_envs))[1]),
                                  Trim(Split(Head(editor_envs))[2])))
       ELSE [ok |-> FALSE, envs |-> map, bad |-> Head(editor_envs)]

(***************************************************************************)
(* The write_all calls made for one def that matches (edit.rs:119-151),    *)
(* in order; each element is the argument of one call.                     *)
(***************************************************************************)
Lines(ls) == [k \in 1..Len(ls) |-> <<ls[k], "\n">>]
MarkerLine(marker) == <<CommentLeading, " ", marker, "\n">>
\* the end marker written after the inject_after lines
DefWritesEndMarkerLast(conf, p_desc_comment, question_desc, d) ==
  (IF conf.comment_problem_desc
     THEN << <<p_desc_comment>>, question_desc >> ELSE << >>)
  \o Lines(conf.inject_before)
  \o (IF conf.edit_code_marker THEN << MarkerLine(StartMarker) >> ELSE << >>)
  \o << <<d.code, "\n">> >>
  \o Lines(conf.inject_after)
  \o (IF conf.edit_code_marker THEN << MarkerLine(EndMarker) >> ELSE << >>)
DefWrites(conf, p_desc_comment, question_desc, d) ==
  (IF conf.comment_problem_desc
     THEN << <<p_desc_comment>>, question_desc >> ELSE << >>)
  \o Lines(conf.inject_before)
  \o (IF conf.edit_code_marker THEN << MarkerLine(StartMarker) >> ELSE << >>)
  \o << <<d.code, "\n">> >>
  \o (IF conf.edit_code_marker THEN << MarkerLine(EndMarker) >> ELSE << >>)
  \o Lines(conf.inject_after)

(***************************************************************************)
(* State.                                                                  *)
(***************************************************************************)
VARIABLES
  fs,          \* the files on disk: path -> [exists, content]
  confFile,    \* conf.code.lang as persisted by conf.sync()
  fstatus,     \* problems.fstatus (schemas.rs:15), per problem
  cfg,         \* the rest of the loaded configuration (conf.code)
  h,           \* the running handler: its position and its locals
  obs,         \* what the running invocation has done so far
  prev,        \* the invocation before this one, when it took the no-match path
  generated,   \* code paths whose generation ran to its end
  invocations, \* invocations started
  faultsUsed   \* environment failures so far

vars == <<fs, confFile, fstatus, cfg, h, obs, prev, generated, invocations, faultsUsed>>

NoResult == [kind |-> "none", lang |-> NoLang, env |-> << >>]
Ok == [kind |-> "Ok", lang |-> NoLang, env |-> << >>]
Err(kind) == [kind |-> kind, lang |-> NoLang, env |-> << >>]
\* anyhow!("This question doesn't support {lang}, please try another")
UnsupportedLanguage(l) == [kind |-> "UnsupportedLanguage", lang |-> l, env |-> << >>]
\* anyhow!("Invalid editor environment variable: {env}")
MalformedEnvEntry(env) == [kind |-> "MalformedEnvEntry", lang |-> NoLang, env |-> env]

IdleFrame ==
  [pc |-> "idle",
   m |-> [id |-> NoId, daily |-> FALSE, lang |-> NoLang],
   id |-> NoId, lang |-> NoLang, test_flag |-> FALSE,
   path |-> NoPath, test_path |-> NoPath,
   question |-> NoQuestion, d |-> 0, flag |-> FALSE,
   args |-> << >>, envs |-> {},
   result |-> NoResult]

NoObs(f, c, st) ==
  [remoteCalls |-> << >>, fsOps |-> {}, synced |-> FALSE,
   existed |-> "unknown", qsource |-> "none", nomatch |-> FALSE,
   daily_id |-> NoId, testCreates |-> 0,
   spawned |-> FALSE, spawns |-> 0, spawnExists |-> FALSE, argv |-> << >>, exit |-> -1,
   statusCalled |-> FALSE, fault |-> "none",
   fs0 |-> f, conf0 |-> c, fstatus0 |-> st]

NoPrev == [nomatch |-> FALSE, id |-> NoId, lang |-> NoLang, result |-> NoResult]

Init ==
  /\ fs = [p \in Paths |-> Absent]
  /\ confFile = "rust"
  /\ fstatus = [p \in ProblemIds |-> FALSE]
  /\ cfg \in Configs
  /\ h = IdleFrame
  /\ obs = NoObs(fs, confFile, fstatus)
  /\ prev = NoPrev
  /\ generated = {}
  /\ invocations = 0
  /\ faultsUsed = 0

\* an environment failure may be drawn while the budget lasts
CanFault == faultsUsed < MaxFaults

\* return Err(e), or the final Ok(())
Return(r) == h' = [h EXCEPT !.pc = "done", !.result = r]
\* a step fails because of its environment
Fault(step, r, o) ==
  /\ CanFault
  /\ faultsUsed' = faultsUsed + 1
  /\ obs' = [o EXCEPT !.fault = step]
  /\ Return(r)

(***************************************************************************)
(* The command line (usage, edit.rs:30-60): exactly one of <id> and        *)
(* --daily, and an optional --lang.                                        *)
(***************************************************************************)
ArgMatches ==
  { [id |-> i, daily |-> FALSE, lang |-> l] : i \in ArgIds, l \in Langs \cup {NoLang} }
  \cup { [id |-> NoId, daily |-> TRUE, lang |-> l] : l \in Langs \cup {NoLang} }

\* a new invocation: handler(m) is entered; Cache::new()? (edit.rs:69)
Start ==
  /\ h.pc \in {"idle", "done"}
  /\ invocations < MaxInvocations
  /\ invocations' = invocations + 1
  /\ prev' = IF obs.nomatch /\ obs.fault = "none"
               THEN [nomatch |-> TRUE, id |-> h.id, lang |-> h.lang, result |-> h.result]
               ELSE NoPrev
  /\ \E m \in ArgMatches :
       \/ /\ h' = [IdleFrame EXCEPT !.pc = "daily", !.m = m]
          /\ obs' = NoObs(fs, confFile, fstatus)
          /\ UNCHANGED faultsUsed
       \/ /\ CanFault
          /\ faultsUsed' = faultsUsed + 1
          /\ h' = [IdleFrame EXCEPT !.pc = "done", !.m = m, !.result = Err("CacheError")]
          /\ obs' = [NoObs(fs, confFile, fstatus) EXCEPT !.fault = "cache_new"]
  /\ UNCHANGED <<fs, confFile, fstatus, cfg, generated>>

\* the daily lookup made whether or not --daily was given
ResolveIdEagerDaily ==
  /\ h.pc = "daily"
  /\ LET o == [obs EXCEPT !.remoteCalls = Append(@, "get_daily_problem_id")] IN
     \/ /\ \E r \in ProblemIds :
             /\ h' = [h EXCEPT !.pc = "get_problem",
                               !.id = IF h.m.id # NoId THEN h.m.id ELSE r]
             /\ obs' = [o EXCEPT !.daily_id = r]
        /\ UNCHANGED faultsUsed
     \/ Fault("daily", Err("RemoteFetchFailure"), o)
  /\ UNCHANGED <<fs, confFile, fstatus, cfg, prev, generated, invocations>>

\* edit.rs:71-82: the daily lookup when --daily, then the id
ResolveId ==
  /\ h.pc = "daily"
  /\ IF h.m.daily
       THEN LET o == [obs EXCEPT !.remoteCalls = Append(@, "get_daily_problem_id")] IN
            \/ /\ \E r \in ProblemIds :
                    /\ h' = [h EXCEPT !.pc = "get_problem", !.id = r]
                    /\ obs' = [o EXCEPT !.daily_id = r]
               /\ UNCHANGED faultsUsed
            \/ Fault("daily", Err("RemoteFetchFailure"), o)
       ELSE /\ IF h.m.id = NoId
                 THEN Return(Err("NoneError"))
                 ELSE h' = [h EXCEPT !.pc = "get_problem", !.id = h.m.id]
            /\ UNCHANGED <<obs, faultsUsed>>
  /\ UNCHANGED <<fs, confFile, fstatus, cfg, prev, generated, invocations>>

\* edit.rs:84-89: cache.get_problem(id)?, the configuration, the test flag
GetProblem ==
  /\ h.pc = "get_problem"
  /\ IF h.id \in ProblemIds
       THEN h' = [h EXCEPT !.pc = "lang", !.lang = confFile, !.test_flag = cfg.test]
       ELSE Return(Err("NotFound"))
  /\ UNCHANGED <<fs, confFile, fstatus, cfg, obs, prev, generated, invocations, faultsUsed>>

\* the override kept in memory only: conf.sync() left out
LangOverrideLocalOnly ==
  /\ h.pc = "lang"
  /\ h' = [h EXCEPT !.pc = "path", !.lang = IF h.m.lang # NoLang THEN h.m.lang ELSE @]
  /\ UNCHANGED <<fs, confFile, fstatus, cfg, obs, prev, generated, invocations, faultsUsed>>

\* edit.rs:91-99: --lang replaces conf.code.lang and conf.sync()? persists it
LangOverride ==
  /\ h.pc = "lang"
  /\ IF h.m.lang # NoLang
       THEN \/ /\ h' = [h EXCEPT !.pc = "path", !.lang = h.m.lang]
               /\ confFile' = h.m.lang
               /\ obs' = [obs EXCEPT !.synced = TRUE]
               /\ UNCHANGED faultsUsed
            \/ /\ Fault("sync", Err("SyncError"), obs)
               /\ UNCHANGED confFile
       ELSE /\ h' = [h EXCEPT !.pc = "path"]
            /\ UNCHANGED <<confFile, obs, faultsUsed>>
  /\ UNCHANGED <<fs, fstatus, cfg, prev, generated, invocations>>

\* edit.rs:100: code_path(&problem, Some(lang))?
ResolvePath ==
  /\ h.pc = "path"
  /\ \/ /\ h' = [h EXCEPT !.pc = "exists", !.path = CodePath(h.id, h.lang)]
        /\ UNCHANGED <<obs, faultsUsed>>
     \/ Fault("code_path", Err("PathError"), obs)
  /\ UNCHANGED <<fs, confFile, fstatus, cfg, prev, generated, invocations>>

\* the pre-check's result dropped: generation is entered every time
CheckExistsAlwaysGenerate ==
  /\ h.pc = "exists"
  /\ h' = [h EXCEPT !.pc = "question"]
  /\ obs' = [obs EXCEPT !.existed = IF PathExists(fs, h.path) THEN "yes" ELSE "no"]
  /\ UNCHANGED <<fs, confFile, fstatus, cfg, prev, generated, invocations, faultsUsed>>

\* edit.rs:102: if !Path::new(&path).exists() { generate }
CheckExists ==
  /\ h.pc = "exists"
  /\ IF PathExists(fs, h.path)
       THEN /\ h' = [h EXCEPT !.pc = "launch"]
            /\ obs' = [obs EXCEPT !.existed = "yes"]
       ELSE /\ h' = [h EXCEPT !.pc = "question"]
            /\ obs' = [obs EXCEPT !.existed = "no"]
  /\ UNCHANGED <<fs, confFile, fstatus, cfg, prev, generated, invocations, faultsUsed>>

\* File::create moved before the question is obtained
GetQuestionCreateFirst ==
  /\ h.pc = "question"
  /\ fs' = FileCreate(fs, h.path)
  /\ LET qr == FromStr(ProblemDesc(h.id))
         c == [obs EXCEPT !.fsOps = @ \cup {<<"create", h.path>>}]
     IN
     IF qr.ok
       THEN /\ h' = [h EXCEPT !.pc = "create", !.question = qr.value]
            /\ obs' = [c EXCEPT !.qsource = "desc"]
            /\ UNCHANGED faultsUsed
       ELSE LET o == [c EXCEPT !.remoteCalls = Append(@, "get_question")] IN
            \/ /\ h' = [h EXCEPT !.pc = "create", !.question = RemoteQuestion(h.id)]
               /\ obs' = [o EXCEPT !.qsource = "remote"]
               /\ UNCHANGED faultsUsed
            \/ Fault("get_question", Err("RemoteFetchFailure"), o)
  /\ UNCHANGED <<confFile, fstatus, cfg, prev, generated, invocations>>

\* edit.rs:103-108: problem.desc parsed as a Question, else cache.get_question(id)
GetQuestion ==
  /\ h.pc = "question"
  /\ LET qr == FromStr(ProblemDesc(h.id)) IN
     IF qr.ok
       THEN /\ h' = [h EXCEPT !.pc = "create", !.question = qr.value]
            /\ obs' = [obs EXCEPT !.qsource = "desc"]
            /\ UNCHANGED faultsUsed
       ELSE LET o == [obs EXCEPT !.remoteCalls = Append(@, "get_question")] IN
            \/ /\ h' = [h EXCEPT !.pc = "create", !.question = RemoteQuestion(h.id)]
               /\ obs' = [o EXCEPT !.qsource = "remote"]
               /\ UNCHANGED faultsUsed
            \/ Fault("get_question", Err("RemoteFetchFailure"), o)
  /\ UNCHANGED <<fs, confFile, fstatus, cfg, prev, generated, invocations>>

\* edit.rs:110-115: File::create(&path)?, test_cases_path(&problem)?, flag = false
CreateCode ==
  /\ h.pc = "create"
  /\ LET o == [obs EXCEPT !.fsOps = @ \cup {<<"create", h.path>>}] IN
     \/ /\ fs' = FileCreate(fs, h.path)
        /\ h' = [h EXCEPT !.pc = "scan", !.test_path = TestCasesPath(h.id),
                          !.d = 1, !.flag = FALSE]
        /\ obs' = o
        /\ UNCHANGED faultsUsed
     \/ /\ Fault("create", Err("IoError"), obs)
        /\ UNCHANGED fs
     \/ /\ fs' = FileCreate(fs, h.path)
        /\ Fault("test_path", Err("PathError"), o)
  /\ UNCHANGED <<confFile, fstatus, cfg, prev, generated, invocations>>

\* the scan stopped at the first match: later defs of the same tag are skipped
ScanDefFirstMatch ==
  /\ h.pc = "scan"
  /\ h.d <= Len(h.question.defs)
  /\ IF h.question.defs[h.d].value = h.lang /\ ~h.flag
       THEN h' = [h EXCEPT !.pc = "write", !.flag = TRUE]
       ELSE h' = [h EXCEPT !.d = @ + 1]
  /\ UNCHANGED <<fs, confFile, fstatus, cfg, obs, prev, generated, invocations, faultsUsed>>

\* edit.rs:116-118: the next def of the scan; a def that matches sets flag
ScanDef ==
  /\ h.pc = "scan"
  /\ h.d <= Len(h.question.defs)
  /\ IF h.question.defs[h.d].value = h.lang
       THEN h' = [h EXCEPT !.pc = "write", !.flag = TRUE]
       ELSE h' = [h EXCEPT !.d = @ + 1]
  /\ UNCHANGED <<fs, confFile, fstatus, cfg, obs, prev, generated, invocations, faultsUsed>>

\* edit.rs:119-151: the write_all calls for the def that matched; the n-th
\* call may fail, the calls before it have been written
WriteDef ==
  /\ h.pc = "write"
  /\ LET writes == DefWrites(cfg, ProblemDescComment(h.id),
                             <<QuestionDescComment(h.question), "\n">>,
                             h.question.defs[h.d])
         o == [obs EXCEPT !.fsOps = @ \cup {<<"write", h.path>>}]
     IN \/ /\ fs' = WriteAll(fs, h.path, Flatten(writes))
           /\ h' = [h EXCEPT !.pc = "tests"]
           /\ obs' = o
           /\ UNCHANGED faultsUsed
        \/ \E n \in 0..(Len(writes) - 1) :
             /\ fs' = WriteAll(fs, h.path, Flatten(Prefix(writes, n)))
             /\ Fault("write", Err("IoError"), IF n = 0 THEN obs ELSE o)
  /\ UNCHANGED <<confFile, fstatus, cfg, prev, generated, invocations>>

\* the test cases written with a newline added, as the code lines are
WriteTestsWithNewline ==
  /\ h.pc = "tests"
  /\ IF h.test_flag
       THEN /\ fs' = WriteAll(FileCreate(fs, h.test_path), h.test_path,
                              <<h.question.all_cases, "\n">>)
            /\ h' = [h EXCEPT !.pc = "scan", !.d = @ + 1]
            /\ obs' = [obs EXCEPT !.fsOps = @ \cup {<<"create", h.test_path>>,
                                                    <<"write", h.test_path>>},
                                  !.testCreates = @ + 1]
       ELSE /\ h' = [h EXCEPT !.pc = "scan", !.d = @ + 1]
            /\ UNCHANGED <<fs, obs>>
  /\ UNCHANGED <<confFile, fstatus, cfg, prev, generated, invocations, faultsUsed>>

\* edit.rs:153-157: the test file, re-created for every def that matches
WriteTests ==
  /\ h.pc = "tests"
  /\ IF h.test_flag
       THEN LET created == [obs EXCEPT !.fsOps = @ \cup {<<"create", h.test_path>>},
                                       !.testCreates = @ + 1]
                written == [created EXCEPT !.fsOps = @ \cup {<<"write", h.test_path>>}]
            IN \/ /\ fs' = WriteAll(FileCreate(fs, h.test_path), h.test_path,
                                    <<h.question.all_cases>>)
                  /\ h' = [h EXCEPT !.pc = "scan", !.d = @ + 1]
                  /\ obs' = written
                  /\ UNCHANGED faultsUsed
               \/ /\ Fault("create_test", Err("IoError"), obs)
                  /\ UNCHANGED fs
               \/ /\ fs' = FileCreate(fs, h.test_path)
                  /\ Fault("write_test", Err("IoError"), created)
       ELSE /\ h' = [h EXCEPT !.pc = "scan", !.d = @ + 1]
            /\ UNCHANGED <<fs, obs, faultsUsed>>
  /\ UNCHANGED <<confFile, fstatus, cfg, prev, generated, invocations>>

\* edit.rs:158-161: the scan is over; generation is complete when a def matched
ScanDone ==
  /\ h.pc = "scan"
  /\ h.d > Len(h.question.defs)
  /\ IF h.flag
       THEN /\ h' = [h EXCEPT !.pc = "launch"]
            /\ generated' = generated \cup {h.path}
            /\ UNCHANGED obs
       ELSE /\ h' = [h EXCEPT !.pc = "cleanup"]
            /\ obs' = [obs EXCEPT !.nomatch = TRUE]
            /\ UNCHANGED generated
  /\ UNCHANGED <<fs, confFile, fstatus, cfg, prev, invocations, faultsUsed>>

\* the code file removed, then no return: the handler goes on to the launch
RemoveCodeFallThrough ==
  /\ h.pc = "cleanup"
  /\ fs' = RemoveFile(fs, h.path)
  /\ h' = [h EXCEPT !.pc = "launch"]
  /\ obs' = [obs EXCEPT !.fsOps = @ \cup {<<"remove", h.path>>}]
  /\ UNCHANGED <<confFile, fstatus, cfg, prev, generated, invocations, faultsUsed>>

\* edit.rs:162: std::fs::remove_file(&path)?
RemoveCode ==
  /\ h.pc = "cleanup"
  /\ IF CanRemove(fs, h.path)
       THEN \/ /\ fs' = RemoveFile(fs, h.path)
               /\ h' = [h EXCEPT !.pc = "cleanup_tests"]
               /\ obs' = [obs EXCEPT !.fsOps = @ \cup {<<"remove", h.path>>}]
               /\ UNCHANGED faultsUsed
            \/ /\ Fault("remove_code", Err("IoError"), obs)
               /\ UNCHANGED fs
       ELSE /\ Return(Err("IoError"))
            /\ UNCHANGED <<fs, obs, faultsUsed>>
  /\ UNCHANGED <<confFile, fstatus, cfg, prev, generated, invocations>>

\* only a test file this invocation created is removed
RemoveTestsOnlyOwn ==
  /\ h.pc = "cleanup_tests"
  /\ IF h.test_flag /\ <<"create", h.test_path>> \in obs.fsOps
       THEN /\ fs' = RemoveFile(fs, h.test_path)
            /\ obs' = [obs EXCEPT !.fsOps = @ \cup {<<"remove", h.test_path>>}]
       ELSE UNCHANGED <<fs, obs>>
  /\ Return(UnsupportedLanguage(h.lang))
  /\ UNCHANGED <<confFile, fstatus, cfg, prev, generated, invocations, faultsUsed>>

\* edit.rs:164-170: if test_flag { remove_file(&test_path)? }; return Err(..)
RemoveTests ==
  /\ h.pc = "cleanup_tests"
  /\ IF h.test_flag
       THEN IF CanRemove(fs, h.test_path)
              THEN \/ /\ fs' = RemoveFile(fs, h.test_path)
                      /\ Return(UnsupportedLanguage(h.lang))
                      /\ obs' = [obs EXCEPT !.fsOps = @ \cup {<<"remove", h.test_path>>}]
                      /\ UNCHANGED faultsUsed
                   \/ /\ Fault("remove_test", Err("IoError"), obs)
                      /\ UNCHANGED fs
              ELSE /\ Return(Err("IoError"))
                   /\ UNCHANGED <<fs, obs, faultsUsed>>
       ELSE /\ Return(UnsupportedLanguage(h.lang))
            /\ UNCHANGED <<fs, obs, faultsUsed>>
  /\ UNCHANGED <<confFile, fstatus, cfg, prev, generated, invocations>>

\* the generated file rolled back when the env entries are rejected
BuildLaunchRollback ==
  /\ h.pc = "launch"
  /\ LET parsed == ParseEnvs(cfg.editor_envs, {}) IN
     IF parsed.ok
       THEN /\ h' = [h EXCEPT !.pc = "spawn", !.args = cfg.editor_args,
                              !.envs = parsed.envs]
            /\ UNCHANGED <<fs, obs>>
       ELSE /\ Return(MalformedEnvEntry(parsed.bad))
            /\ fs' = IF obs.existed = "no" THEN RemoveFile(fs, h.path) ELSE fs
            /\ obs' = IF obs.existed = "no"
                        THEN [obs EXCEPT !.fsOps = @ \cup {<<"remove", h.path>>}]
                        ELSE obs
  /\ UNCHANGED <<confFile, fstatus, cfg, prev, generated, invocations, faultsUsed>>

\* edit.rs:187-217: args from editor_args, envs from editor_envs
BuildLaunch ==
  /\ h.pc = "launch"
  /\ LET parsed == ParseEnvs(cfg.editor_envs, {}) IN
     IF parsed.ok
       THEN h' = [h EXCEPT !.pc = "spawn", !.args = cfg.editor_args, !.envs = parsed.envs]
       ELSE Return(MalformedEnvEntry(parsed.bad))
  /\ UNCHANGED <<fs, confFile, fstatus, cfg, obs, prev, generated, invocations, faultsUsed>>

\* the configured editor_args dropped: the path is the only argument
SpawnEditorPathOnly ==
  /\ h.pc = "spawn"
  /\ LET argv == <<h.path>> IN
     \/ /\ \E code \in {0, 1} :
             obs' = [obs EXCEPT !.spawned = TRUE, !.spawns = @ + 1,
                                !.argv = argv, !.exit = code,
                                !.spawnExists = PathExists(fs, h.path)]
        /\ h' = [h EXCEPT !.pc = "status", !.args = argv]
        /\ UNCHANGED faultsUsed
     \/ Fault("spawn", Err("ProcessSpawnFailure"), obs)
  /\ UNCHANGED <<fs, confFile, fstatus, cfg, prev, generated, invocations>>

\* the `?` on status() dropped: a failed spawn goes on to the status update
SpawnEditorIgnoreFailure ==
  /\ h.pc = "spawn"
  /\ LET argv == Append(h.args, h.path) IN
     \/ /\ \E code \in {0, 1} :
             obs' = [obs EXCEPT !.spawned = TRUE, !.spawns = @ + 1,
                                !.argv = argv, !.exit = code,
                                !.spawnExists = PathExists(fs, h.path)]
        /\ h' = [h EXCEPT !.pc = "status", !.args = argv]
        /\ UNCHANGED faultsUsed
     \/ /\ CanFault
        /\ faultsUsed' = faultsUsed + 1
        /\ obs' = [obs EXCEPT !.fault = "spawn"]
        /\ h' = [h EXCEPT !.pc = "status", !.args = argv]
  /\ UNCHANGED <<fs, confFile, fstatus, cfg, prev, generated, invocations>>

\* edit.rs:219-223: args.push(path); Command::new(editor).envs(envs).args(args).status()?
\* the editor runs and exits with any code, or cannot be started
SpawnEditor ==
  /\ h.pc = "spawn"
  /\ LET argv == Append(h.args, h.path) IN
     \/ /\ \E code \in {0, 1} :
             obs' = [obs EXCEPT !.spawned = TRUE, !.spawns = @ + 1,
                                !.argv = argv, !.exit = code,
                                !.spawnExists = PathExists(fs, h.path)]
        /\ h' = [h EXCEPT !.pc = "status", !.args = argv]
        /\ UNCHANGED faultsUsed
     \/ Fault("spawn", Err("ProcessSpawnFailure"), obs)
  /\ UNCHANGED <<fs, confFile, fstatus, cfg, prev, generated, invocations>>

\* the status update made only when the editor exits with 0
UpdateStatusOnZeroExit ==
  /\ h.pc = "status"
  /\ IF obs.exit = 0
       THEN /\ fstatus' = [fstatus EXCEPT ![h.id] = TRUE]
            /\ Return(Ok)
            /\ obs' = [obs EXCEPT !.statusCalled = TRUE]
       ELSE /\ Return(Err("EditorFailed"))
            /\ UNCHANGED <<fstatus, obs>>
  /\ UNCHANGED <<fs, confFile, cfg, prev, generated, invocations, faultsUsed>>

\* edit.rs:226-228: cache.update_problem_file_status(problem.id, true)?; Ok(())
UpdateStatus ==
  /\ h.pc = "status"
  /\ LET o == [obs EXCEPT !.statusCalled = TRUE] IN
     \/ /\ fstatus' = [fstatus EXCEPT ![h.id] = TRUE]
        /\ Return(Ok)
        /\ obs' = o
        /\ UNCHANGED faultsUsed
     \/ /\ Fault("status", Err("StatusError"), o)
        /\ UNCHANGED fstatus
  /\ UNCHANGED <<fs, confFile, cfg, prev, generated, invocations>>

Next ==
  \/ Start
  \/ ResolveId
  \/ GetProblem
  \/ LangOverride
  \/ ResolvePath
  \/ CheckExists
  \/ GetQuestion
  \/ CreateCode
  \/ ScanDef
  \/ WriteDef
  \/ WriteTests
  \/ ScanDone
  \/ RemoveCode
  \/ RemoveTests
  \/ BuildLaunch
  \/ SpawnEditor
  \/ UpdateStatus

Spec == Init /\ [][Next]_vars

\* the same handler under every combination of the four layout switches, with
\* the test flag on and one well-formed editor configuration
LayoutsAll ==
  { [comment_problem_desc |-> c, edit_code_marker |-> m,
     inject_before |-> b, inject_after |-> a] :
      c \in BOOLEAN, m \in BOOLEAN,
      b \in {<< >>, <<"use a;", "use b;">>}, a \in {<< >>, <<"fn main() {}">>} }
ConfigsLayout ==
  { Config(TRUE, l, [editor_args |-> <<"-n", "-s">>,
                     editor_envs |-> <<EnvGood, EnvEmptyValue>>]) : l \in LayoutsAll }
InitLayout ==
  /\ fs = [p \in Paths |-> Absent]
  /\ confFile = "rust"
  /\ fstatus = [p \in ProblemIds |-> FALSE]
  /\ cfg \in ConfigsLayout
  /\ h = IdleFrame
  /\ obs = NoObs(fs, confFile, fstatus)
  /\ prev = NoPrev
  /\ generated = {}
  /\ invocations = 0
  /\ faultsUsed = 0

SpecLayout == InitLayout /\ [][Next]_vars

TypeOK ==
  /\ h.pc \in {"idle", "daily", "get_problem", "lang", "path", "exists", "question",
               "create", "scan", "write", "tests", "cleanup", "cleanup_tests",
               "launch", "spawn", "status", "done"}
  /\ invocations \in 0..MaxInvocations
  /\ faultsUsed \in 0..MaxFaults
  /\ generated \subseteq CodePaths

(***************************************************************************)
(* Vocabulary of the properties.                                           *)
(***************************************************************************)
InSeq(x, seq) == \E k \in 1..Len(seq) : seq[k] = x
Done == h.pc = "done"
\* the target code path is known and the file was on disk when the handler began
\* (nothing is written between the start and the pre-check)
TargetExisted == h.path # NoPath /\ obs.fs0[h.path].exists
\* the language is among the tags of the question's defs
Supports(q, l) == \E k \in 1..Len(q.defs) : q.defs[k].value = l
\* the question the handler obtains for a problem
QuestionOf(pid) ==
  IF ProblemDesc(pid).json THEN ProblemDesc(pid).value ELSE RemoteQuestion(pid)
\* the editor launch (edit.rs:187) was reached: the file existed, or a scan ended
\* with a match
LaunchReached ==
  obs.existed = "yes" \/ (obs.existed = "no" /\ h.flag /\ h.d > Len(h.question.defs))
\* an entry that does not hold exactly one '='
EqCount(env) == Cardinality({k \in 1..Len(env) : env[k] = "="})
Malformed(env) == EqCount(env) # 1
MalformedAt == {k \in 1..Len(cfg.editor_envs) : Malformed(cfg.editor_envs[k])}
FirstMalformed ==
  cfg.editor_envs[CHOOSE k \in MalformedAt : \A j \in MalformedAt : k <= j]
\* the bytes a generation without failures writes for (problem, language): the
\* writes of every def that carries the tag, in def order
RECURSIVE GeneratedFrom(_, _, _, _)
GeneratedFrom(pid, l, q, k) ==
  IF k > Len(q.defs) THEN << >>
  ELSE (IF q.defs[k].value = l
          THEN Flatten(DefWrites(cfg, ProblemDescComment(pid),
                                 <<QuestionDescComment(q), "\n">>, q.defs[k]))
          ELSE << >>)
       \o GeneratedFrom(pid, l, q, k + 1)
GeneratedCode(pid, l) == GeneratedFrom(pid, l, QuestionOf(pid), 1)

(***************************************************************************)
(* C1 (as claimed).  No-match cleanup: an invocation that starts with no   *)
(* code file and finds no def for the requested language ends with the     *)
(* code file absent, the test file absent when the test flag is enabled,   *)
(* and the UnsupportedLanguage error naming the language -- whatever the   *)
(* test flag and whether or not a test file existed before.  Stated for    *)
(* invocations in which no environment failure was drawn.                  *)
(***************************************************************************)
C1_NoMatchCleanup ==
  (Done /\ obs.nomatch /\ obs.fault = "none") =>
    /\ ~fs[h.path].exists
    /\ (h.test_flag => ~fs[h.test_path].exists)
    /\ h.result = UnsupportedLanguage(h.lang)

(***************************************************************************)
(* C2 (as claimed).  Solution-file invariant: at the end of every          *)
(* invocation, however it ended, a code file exists on disk if and only if *)
(* generation ran to its end for that path in this or an earlier           *)
(* invocation; no partial or empty code file is left behind.               *)
(***************************************************************************)
C2_SolutionFileInvariant ==
  Done => \A p \in CodePaths : fs[p].exists <=> p \in generated

(***************************************************************************)
(* C3.  Idempotence by presence: when the code file already exists, the    *)
(* invocation performs no create, write or remove on any code or test      *)
(* file, and every file is content-identical to what it was at the start,  *)
(* at every step and in every repeated invocation.                         *)
(***************************************************************************)
C3_IdempotentByPresence ==
  TargetExisted => (obs.fsOps = {} /\ fs = obs.fs0 /\ obs.existed \in {"unknown", "yes"})

C3_Witness ==
  Done /\ TargetExisted /\ h.result = Ok /\ invocations >= 2
       /\ fs[h.path].content # << >>

(***************************************************************************)
(* C4 (as claimed).  In every invocation whose target code path already    *)
(* exists, no remote call is made at all: neither the daily-id lookup nor  *)
(* the question fetch.                                                     *)
(***************************************************************************)
C4_NoRemoteWhenExisting ==
  TargetExisted => obs.remoteCalls = << >>

(***************************************************************************)
(* C4 (amended).  In every invocation whose target code path already       *)
(* exists, the question fetch is never made; the daily-id lookup is made,  *)
(* once, exactly when --daily was given.                                   *)
(***************************************************************************)
C4_NoQuestionFetchWhenExisting ==
  TargetExisted =>
    obs.remoteCalls = IF h.m.daily THEN <<"get_daily_problem_id">> ELSE << >>

C4_Witness ==
  Done /\ TargetExisted /\ h.m.daily /\ h.id = 2 /\ h.result = Ok

(***************************************************************************)
(* C5.  Env validation gate: when some configured editor-env entry does    *)
(* not hold exactly one '=', the editor is never spawned and the file      *)
(* status is never updated, and an invocation that reaches the editor      *)
(* launch returns MalformedEnvEntry naming the first such entry, wherever  *)
(* it sits in the list.                                                    *)
(***************************************************************************)
C5_EnvValidationGate ==
  MalformedAt # {} =>
    /\ ~obs.spawned
    /\ ~obs.statusCalled
    /\ fstatus = obs.fstatus0
    /\ (Done /\ LaunchReached) => h.result = MalformedEnvEntry(FirstMalformed)

C5_Witness ==
  /\ Done
  /\ h.result = MalformedEnvEntry(EnvNoEq)
  /\ cfg.editor_envs = <<EnvGood, EnvNoEq>>
  /\ h.path \in generated

(***************************************************************************)
(* C6.  File-status gating: update_problem_file_status is called only      *)
(* after the editor was spawned and returned; the file status changes only *)
(* through that call; an invocation that ended on an earlier fatal error   *)
(* has not called it.                                                      *)
(***************************************************************************)
EarlierErrors ==
  {"CacheError", "NoneError", "NotFound", "RemoteFetchFailure", "SyncError", "PathError",
   "IoError", "UnsupportedLanguage", "MalformedEnvEntry", "ProcessSpawnFailure"}
C6_StatusGating ==
  /\ obs.statusCalled => (obs.spawned /\ obs.exit \in {0, 1} /\ Done)
  /\ fstatus # obs.fstatus0 => obs.statusCalled
  /\ h.result.kind \in EarlierErrors => (~obs.statusCalled /\ fstatus = obs.fstatus0)

C6_Witness ==
  Done /\ obs.statusCalled /\ obs.spawned /\ h.result = Ok /\ fstatus # obs.fstatus0

(***************************************************************************)
(* C7.  The editor's exit code is ignored: once the editor was spawned and *)
(* has exited, with code 0 or not, the invocation calls the status update, *)
(* and unless that update itself fails it ends with the problem's status   *)
(* true and Ok.                                                            *)
(***************************************************************************)
C7_ExitCodeIgnored ==
  (Done /\ obs.spawned) =>
    /\ obs.statusCalled
    /\ obs.fault # "status" => (h.result = Ok /\ fstatus[h.id])

C7_Witness ==
  Done /\ obs.spawned /\ obs.exit = 1 /\ h.result = Ok /\ fstatus[h.id]

(***************************************************************************)
(* C8 (as claimed).  An invocation that fails before the code file is      *)
(* created (daily lookup failure, problem not found, path derivation       *)
(* failure, question fetch failure) creates, modifies or deletes no file   *)
(* on disk, also when --lang was given.  The persisted configuration is a  *)
(* file on disk.                                                           *)
(***************************************************************************)
FailedBeforeCreate ==
  Done /\ (obs.fault \in {"daily", "code_path", "get_question"} \/ h.result.kind = "NotFound")
C8_FailureLeavesDiskUntouched ==
  FailedBeforeCreate =>
    (fs = obs.fs0 /\ obs.fsOps = {} /\ ~obs.synced /\ confFile = obs.conf0)

(***************************************************************************)
(* C8 (amended).  An invocation that fails before the code file is created *)
(* creates, modifies or deletes no code file and no test file; the         *)
(* persisted configuration is rewritten only with the --lang override, and *)
(* then only when the failure comes after conf.sync(): at the path         *)
(* derivation or at the question fetch.                                    *)
(***************************************************************************)
C8_FailureLeavesCodeAndTestFiles ==
  FailedBeforeCreate =>
    /\ fs = obs.fs0
    /\ obs.fsOps = {}
    /\ obs.synced <=> (h.m.lang # NoLang /\ obs.fault \in {"code_path", "get_question"})
    /\ confFile = IF obs.synced THEN h.m.lang ELSE obs.conf0

C8_Witness ==
  /\ FailedBeforeCreate
  /\ obs.fault = "get_question"
  /\ obs.synced
  /\ confFile # obs.conf0
  /\ fs = obs.fs0

(***************************************************************************)
(* C9 (as claimed).  Retry after UnsupportedLanguage: after an invocation  *)
(* for (problem, L1) that took the no-match path, the next invocation for  *)
(* the same problem (a) with a supported language L2 whose file is absent  *)
(* completes generation and leaves the code file, and the test file when   *)
(* the test flag is enabled, exactly as a first generation writes them,    *)
(* and (b) with L1 again fails the same way.  Stated for behaviours in     *)
(* which no environment failure was drawn.                                 *)
(***************************************************************************)
C9_RetryAfterUnsupported ==
  (Done /\ prev.nomatch /\ faultsUsed = 0 /\ h.id = prev.id /\ h.path # NoPath) =>
    /\ (Supports(QuestionOf(h.id), h.lang) /\ ~obs.fs0[h.path].exists) =>
         /\ h.path \in generated
         /\ fs[h.path] = [exists |-> TRUE, content |-> GeneratedCode(h.id, h.lang)]
         /\ h.test_flag =>
              fs[h.test_path] =
                [exists |-> TRUE, content |-> <<QuestionOf(h.id).all_cases>>]
    /\ h.lang = prev.lang => h.result = prev.result

(***************************************************************************)
(* C10.  Cache fast path: once generation is entered, the Question comes   *)
(* from Problem.desc whenever that text is a serialized Question, and then *)
(* cache.get_question is not called; cache.get_question is called only     *)
(* when Problem.desc is no Question.                                       *)
(***************************************************************************)
C10_CacheFastPath ==
  /\ (obs.qsource # "none" /\ ProblemDesc(h.id).json) =>
       /\ obs.qsource = "desc"
       /\ h.question = ProblemDesc(h.id).value
       /\ ~InSeq("get_question", obs.remoteCalls)
  /\ InSeq("get_question", obs.remoteCalls) =>
       (obs.existed = "no" /\ ~ProblemDesc(h.id).json)
  /\ obs.qsource = "remote" =>
       (h.question = RemoteQuestion(h.id) /\ InSeq("get_question", obs.remoteCalls))

C10_Witness ==
  Done /\ obs.qsource = "desc" /\ h.question = Question1 /\ h.path \in generated
       /\ obs.remoteCalls = << >> /\ h.result = Ok

(***************************************************************************)
(* The layout of a generated code file, segment by segment.                *)
(***************************************************************************)
\* generation was entered and the scan ended with a match: every write succeeded
GenerationCompleted ==
  obs.existed = "no" /\ h.flag /\ h.d > Len(h.question.defs)
MatchingDefs(q, l) == {k \in 1..Len(q.defs) : q.defs[k].value = l}
\* (a) the problem's description comment, then the question's, newline-terminated
SegDesc(pid, q) == <<ProblemDescComment(pid), QuestionDescComment(q), "\n">>
\* (b), (f) each configured line, newline-terminated
RECURSIVE SegLines(_)
SegLines(ls) ==
  IF ls = << >> THEN << >> ELSE <<Head(ls), "\n">> \o SegLines(Tail(ls))
\* (c), (e) the line '<comment_leading> <marker>'
SegMarker(marker) == <<CommentLeading, " ", marker, "\n">>
\* (a)..(f) for one template
LayoutBlock(pid, q, code) ==
  (IF cfg.comment_problem_desc THEN SegDesc(pid, q) ELSE << >>)
  \o SegLines(cfg.inject_before)
  \o (IF cfg.edit_code_marker THEN SegMarker(StartMarker) ELSE << >>)
  \o <<code, "\n">>
  \o (IF cfg.edit_code_marker THEN SegMarker(EndMarker) ELSE << >>)
  \o SegLines(cfg.inject_after)

(***************************************************************************)
(* C11 (as claimed).  Code-file layout: when generation starts from no     *)
(* file and a def matching the requested language is found, the written    *)
(* code file consists of exactly the segments (a)..(f) for the matched     *)
(* template, in this order, and nothing else, for every combination of the *)
(* flags.                                                                  *)
(***************************************************************************)
C11_CodeFileLayout ==
  (Done /\ GenerationCompleted) =>
    \E k \in MatchingDefs(h.question, h.lang) :
      fs[h.path] =
        [exists |-> TRUE, content |-> LayoutBlock(h.id, h.question, h.question.defs[k].code)]

(***************************************************************************)
(* C11 (amended).  Code-file layout: when generation starts from no file   *)
(* and exactly one def carries the requested language, the written code    *)
(* file consists of exactly the segments (a)..(f) for that def's template, *)
(* in this order, and nothing else, for every combination of the flags.    *)
(***************************************************************************)
C11_CodeFileLayoutSingleMatch ==
  (Done /\ GenerationCompleted /\ Cardinality(MatchingDefs(h.question, h.lang)) = 1) =>
    \A k \in MatchingDefs(h.question, h.lang) :
      fs[h.path] =
        [exists |-> TRUE, content |-> LayoutBlock(h.id, h.question, h.question.defs[k].code)]

C11_Witness ==
  /\ Done
  /\ GenerationCompleted
  /\ MatchingDefs(h.question, h.lang) = {2}
  /\ cfg.comment_problem_desc
  /\ ~cfg.edit_code_marker
  /\ cfg.inject_before = << >>
  /\ cfg.inject_after # << >>
  /\ fs[h.path].content =
       <<"/* problem 1 */", "question-1", "\n", "fn one() {}", "\n", "fn main() {}", "\n">>

(***************************************************************************)
(* C12.  Test-file generation: when generation starts from no file and a   *)
(* matching language is found, then with the test flag enabled the test    *)
(* file at test_cases_path(problem) exists afterwards and holds exactly    *)
(* the Question's all_cases; with the test flag disabled the test file is  *)
(* neither created nor modified.                                           *)
(***************************************************************************)
C12_TestFileGeneration ==
  (Done /\ GenerationCompleted) =>
    /\ h.test_path = TestCasesPath(h.id)
    /\ IF cfg.test
         THEN fs[TestCasesPath(h.id)] =
                [exists |-> TRUE, content |-> <<QuestionOf(h.id).all_cases>>]
         ELSE /\ fs[TestCasesPath(h.id)] = obs.fs0[TestCasesPath(h.id)]
              /\ \A op \in obs.fsOps : op[2] # TestCasesPath(h.id)

C12_Witness ==
  /\ Done
  /\ GenerationCompleted
  /\ cfg.test
  /\ ~obs.fs0[TestCasesPath(1)].exists
  /\ fs[TestCasesPath(1)] = [exists |-> TRUE, content |-> <<"cases-1">>]

(***************************************************************************)
(* C13.  Id resolution: with --daily the id returned by the remote daily   *)
(* lookup is the id used for get_problem, the paths, the question and the  *)
(* file-status update; with an explicit id that id is used and the daily   *)
(* lookup is never called; the daily lookup is called at most once and     *)
(* before any other step that uses the id.                                 *)
(***************************************************************************)
ResolvedId == IF h.m.daily THEN obs.daily_id ELSE h.m.id
DailyCalls == {k \in 1..Len(obs.remoteCalls) : obs.remoteCalls[k] = "get_daily_problem_id"}
C13_IdResolution ==
  /\ h.id # NoId => h.id = ResolvedId
  /\ h.m.daily => (DailyCalls \subseteq {1} /\ (h.id # NoId => DailyCalls = {1}))
  /\ ~h.m.daily => (DailyCalls = {} /\ obs.daily_id = NoId)
  /\ h.path # NoPath => h.path = CodePath(ResolvedId, h.lang)
  /\ h.test_path # NoPath => h.test_path = TestCasesPath(ResolvedId)
  /\ obs.qsource # "none" => h.question = QuestionOf(ResolvedId)
  /\ fstatus # obs.fstatus0 => fstatus = [obs.fstatus0 EXCEPT ![ResolvedId] = TRUE]

C13_Witness ==
  /\ Done
  /\ h.m.daily
  /\ obs.daily_id = 2
  /\ obs.remoteCalls = <<"get_daily_problem_id", "get_question">>
  /\ h.path = CodePath(2, "python3")
  /\ h.result = Ok
  /\ fstatus[2] /\ ~obs.fstatus0[2]

\* the segments (a)..(f) once for every def that carries the tag, in def order
RECURSIVE BlocksFrom(_, _, _, _)
BlocksFrom(pid, l, q, k) ==
  IF k > Len(q.defs) THEN << >>
  ELSE (IF q.defs[k].value = l THEN LayoutBlock(pid, q, q.defs[k].code) ELSE << >>)
       \o BlocksFrom(pid, l, q, k + 1)

(***************************************************************************)
(* C14.  No rollback on editor-launch failure: when generation succeeded   *)
(* in this invocation and the launch then fails (malformed env entry or    *)
(* spawn failure), the code file, and the test file when the test flag is  *)
(* enabled, are still on disk with the generated content when the error is *)
(* returned.                                                               *)
(***************************************************************************)
C14_NoRollbackOnLaunchFailure ==
  (Done /\ GenerationCompleted
        /\ h.result.kind \in {"MalformedEnvEntry", "ProcessSpawnFailure"}) =>
    /\ fs[h.path] =
         [exists |-> TRUE, content |-> BlocksFrom(h.id, h.lang, h.question, 1)]
    /\ cfg.test => fs[TestCasesPath(h.id)] =
                     [exists |-> TRUE, content |-> <<h.question.all_cases>>]
    /\ \A op \in obs.fsOps : op[1] # "remove"

C14_Witness ==
  /\ Done
  /\ GenerationCompleted
  /\ h.result.kind = "ProcessSpawnFailure"
  /\ cfg.test
  /\ fs[h.path].exists /\ fs[h.path].content # << >>
  /\ fs[TestCasesPath(h.id)].exists

(***************************************************************************)
(* C15.  Editor argv: whenever the editor is spawned, its arguments are    *)
(* the configured editor_args in their order followed by the resolved      *)
(* code-file path as the single last argument (the path alone when no      *)
(* editor_args are configured); the editor is spawned at most once per     *)
(* invocation.                                                             *)
(***************************************************************************)
C15_EditorArgv ==
  /\ obs.spawns <= 1
  /\ obs.spawned <=> obs.spawns = 1
  /\ obs.spawned =>
       /\ Len(obs.argv) = Len(cfg.editor_args) + 1
       /\ \A k \in 1..Len(cfg.editor_args) : obs.argv[k] = cfg.editor_args[k]
       /\ obs.argv[Len(obs.argv)] = CodePath(h.id, h.lang)

C15_Witness ==
  /\ Done
  /\ obs.spawned
  /\ Len(obs.argv) = 3
  /\ obs.argv[1] = "-n" /\ obs.argv[2] = "-s" /\ obs.argv[3] = CodePath(1, "rust")

(***************************************************************************)
(* C16.  Lang override persistence ordering: with --lang the override is   *)
(* written to the persisted configuration before the existence pre-check   *)
(* and before any generation step, and it stays persisted when the         *)
(* invocation later fails with UnsupportedLanguage, a question fetch       *)
(* failure, MalformedEnvEntry or ProcessSpawnFailure; without --lang the   *)
(* handler never writes the persisted configuration, and uses the          *)
(* language persisted before.                                              *)
(***************************************************************************)
C16_LangOverridePersisted ==
  /\ obs.synced => (h.m.lang # NoLang /\ confFile = h.m.lang)
  /\ ~obs.synced => confFile = obs.conf0
  /\ (h.m.lang # NoLang /\ (h.path # NoPath \/ obs.existed # "unknown"
                            \/ obs.qsource # "none" \/ obs.fsOps # {})) => obs.synced
  /\ (Done /\ h.m.lang # NoLang
           /\ (h.result.kind \in {"UnsupportedLanguage", "MalformedEnvEntry",
                                  "ProcessSpawnFailure"}
               \/ obs.fault = "get_question")) => confFile = h.m.lang
  /\ (h.m.lang = NoLang /\ h.lang # NoLang) => h.lang = obs.conf0

C16_Witness ==
  /\ Done
  /\ h.result = UnsupportedLanguage("python3")
  /\ h.m.lang = "python3"
  /\ obs.conf0 = "rust"
  /\ confFile = "python3"

(***************************************************************************)
(* C17.  No-match cleanup deletes a test file it did not create: the       *)
(* test-file path depends on the problem only, so with the test flag       *)
(* enabled, when an earlier generation for the problem wrote the test      *)
(* file, a later no-match invocation for the same problem with an          *)
(* unsupported language deletes that test file, without having created     *)
(* it, and leaves the code files of the other languages untouched.         *)
(***************************************************************************)
C17_CleanupDeletesForeignTestFile ==
  (Done /\ obs.nomatch /\ obs.fault = "none" /\ cfg.test
        /\ obs.fs0[TestCasesPath(h.id)].exists) =>
    /\ h.test_path = TestCasesPath(h.id)
    /\ ~fs[TestCasesPath(h.id)].exists
    /\ <<"remove", TestCasesPath(h.id)>> \in obs.fsOps
    /\ <<"create", TestCasesPath(h.id)>> \notin obs.fsOps
    /\ \A p \in CodePaths \ {h.path} : fs[p] = obs.fs0[p]
    /\ h.result = UnsupportedLanguage(h.lang)

C17_Witness ==
  /\ Done
  /\ obs.nomatch
  /\ h.id = 1 /\ h.lang = "python3"
  /\ CodePath(1, "rust") \in generated
  /\ fs[CodePath(1, "rust")] =
       [exists |-> TRUE, content |-> BlocksFrom(1, "rust", Question1, 1)]
  /\ obs.fs0[TestCasesPath(1)] = [exists |-> TRUE, content |-> <<"cases-1">>]
  /\ ~fs[TestCasesPath(1)].exists

(***************************************************************************)
(* C18.  Duplicate language tags: the scan does not stop at the first      *)
(* match, so when two or more defs carry the requested tag the generated   *)
(* code file holds the full layout block once per matching def, in def     *)
(* order, and the test file is re-created once per match and holds         *)
(* all_cases once.                                                         *)
(***************************************************************************)
C18_DuplicateTags ==
  (Done /\ GenerationCompleted /\ Cardinality(MatchingDefs(h.question, h.lang)) >= 2) =>
    /\ fs[h.path] =
         [exists |-> TRUE, content |-> BlocksFrom(h.id, h.lang, h.question, 1)]
    /\ cfg.test =>
         /\ obs.testCreates = Cardinality(MatchingDefs(h.question, h.lang))
         /\ fs[TestCasesPath(h.id)] =
              [exists |-> TRUE, content |-> <<h.question.all_cases>>]

C18_Witness ==
  /\ Done
  /\ GenerationCompleted
  /\ h.question = Question2
  /\ cfg.test /\ ~cfg.comment_problem_desc
  /\ obs.testCreates = 2
  /\ fs[h.path].content = <<"def two(): pass", "\n", "def two_bis(): pass", "\n">>

(***************************************************************************)
(* C19.  Editor spawn precondition: whenever the editor is spawned, the    *)
(* code file at the path passed as the last argument exists on disk at     *)
(* spawn time: it was there when the invocation began, or this invocation  *)
(* generated it with a matching template; the editor is not spawned in an  *)
(* invocation whose generation failed.                                     *)
(***************************************************************************)
GenerationFaults ==
  {"get_question", "create", "test_path", "write", "create_test", "write_test",
   "remove_code", "remove_test"}
C19_SpawnPrecondition ==
  obs.spawned =>
    /\ obs.spawnExists
    /\ obs.argv[Len(obs.argv)] = h.path
    /\ fs[h.path].exists
    /\ obs.fs0[h.path].exists \/ GenerationCompleted
    /\ ~obs.nomatch
    /\ obs.fault \notin GenerationFaults

C19_Witness ==
  /\ Done
  /\ obs.spawned
  /\ obs.spawnExists
  /\ GenerationCompleted
  /\ ~obs.fs0[h.path].exists
  /\ h.result = Ok

====
